---------------------------- MODULE Spec2Model ----------------------------
(***************************************************************************)
(* Emergency incidents analysis: the dashboard script (dashboard.py), the   *)
(* analyzer (data_analyzer.py), the database summary (database_summary.py)  *)
(* and the quick preview (quick_preview.py), each as a sequential program   *)
(* over a dataframe read from a CSV file.                                   *)
(*                                                                          *)
(* Values.  A scalar cell is a set with at most one element: the empty set  *)
(* is the missing value (NaN, NaT, None) and {v} is the value v.  Strings   *)
(* that the programs take apart (incident_type) are sequences of            *)
(* one-character strings.  A UTC timestamp is a number of hours since the   *)
(* epoch; a response time is a number of half minutes (2 is 1.0 minute,     *)
(* 3 is 1.5 minutes), so that int() of it is a real truncation.             *)
(***************************************************************************)
EXTENDS Integers, Sequences, FiniteSets, TLC

VARIABLES
    files,        \* per candidate path of the dashboard: "absent", "unreadable", "ok"
    csv,          \* the rows of the CSV file, as read_csv delivers them
    i,            \* dashboard load_data: index of the candidate path tried next
    reads,        \* the candidate paths pd.read_csv was called on, in order
    df,           \* the dataframe: NA while it is None, {rows} once loaded
    pc,           \* position of the running script
    widgets,      \* the values the sidebar widgets returned
    filtered_df,  \* main(): the filtered dataframe
    rendered,     \* the elements rendered / lines printed so far
    download,     \* the CSV offered by the download button (NA: no button)
    call,         \* the entry point that was called
    result,       \* the value returned by the function under analysis (NA: none yet)
    written,      \* the files written: file name |-> content
    printed       \* the lists printed to the console, in order

vars == <<files, csv, i, reads, df, pc, widgets, filtered_df, rendered,
          download, call, result, written, printed>>

-----------------------------------------------------------------------------
(* Bounds of the model. *)

\* most rows of an arbitrary dataset
MaxRows == 2
\* most rows of a bulk dataset (copies of one row), beyond the smallest table page
BulkExtra == 1

-----------------------------------------------------------------------------
(* Missing values and the library's comparisons. *)

NA == {}
Some(v) == {v}
Get(c) == CHOOSE v \in c : TRUE
notna(c) == c # NA

\* Series == scalar: a missing value is equal to nothing
PdEq(c, v) == notna(c) /\ notna(v) /\ c = v
\* Series <= scalar, Series >= scalar: a missing value compares False
PdLe(c, v) == notna(c) /\ Get(c) <= v
PdGe(c, v) == notna(c) /\ Get(c) >= v

Range(s) == {s[k] : k \in DOMAIN s}

AllMissing(series) == \A k \in DOMAIN series : series[k] = NA

\* df[col]: a column, as the sequence of its cells
Column(d, col) == [k \in DOMAIN d |-> d[k][col]]

\* Series.dropna(): the values that are present, in their order
dropna(series) ==
    LET present == SelectSeq(series, notna)
    IN  [k \in DOMAIN present |-> Get(present[k])]

\* Series.max() / Series.min(): skips missing values, NaN when none is left
SetMax(S) == CHOOSE m \in S : \A x \in S : x <= m
SetMin(S) == CHOOSE m \in S : \A x \in S : m <= x
SeriesMax(series) ==
    LET vs == Range(dropna(series)) IN IF vs = {} THEN NA ELSE Some(SetMax(vs))
SeriesMin(series) ==
    LET vs == Range(dropna(series)) IN IF vs = {} THEN NA ELSE Some(SetMin(vs))

-----------------------------------------------------------------------------
(* Strings, timestamps and the derived columns (load_data). *)

Str_All == <<"A", "l", "l">>
Str_Unknown == <<"U", "n", "k", "n", "o", "w", "n">>
Str_Sep == <<"|", "|">>

\* re.compile(pat).split(s) for a pattern that matches only the empty string:
\* a split at every position, the first piece being the empty string
RegexSplitEmpty(s) == << <<>> >> \o [k \in DOMAIN s |-> <<s[k]>>] \o << <<>> >>

\* str.split(c) for a one-character separator c
RECURSIVE LiteralSplit1(_, _, _)
LiteralSplit1(s, c, piece) ==
    IF s = <<>> THEN <<piece>>
    ELSE IF s[1] = c THEN <<piece>> \o LiteralSplit1(Tail(s), c, <<>>)
         ELSE LiteralSplit1(Tail(s), c, Append(piece, s[1]))

\* The regular expression a pattern made of "|" only denotes: an alternation of
\* empty branches, which matches the empty string and nothing else.
OnlyBars(pat) == \A k \in DOMAIN pat : pat[k] = "|"

\* Series.str.split(pat) on one string: a pattern of length 1 is a literal
\* separator, any other pattern is compiled as a regular expression
str_split(s, pat) ==
    IF Len(pat) = 1 THEN LiteralSplit1(s, pat[1], <<>>)
    ELSE IF OnlyBars(pat) THEN RegexSplitEmpty(s)
    ELSE <<s>>

\* A column of a non-empty file whose every value is missing is read as a
\* column of floats, and the .str accessor raises AttributeError on it
StrAccessorRaises(series) == series # <<>> /\ AllMissing(series)

\* df['incident_type'].str.split('||').str[0]
incident_main_type_of(cell) ==
    IF cell = NA THEN NA ELSE Some(str_split(Get(cell), Str_Sep)[1])

\* .fillna('Unknown')
fillna(cell, v) == IF cell = NA THEN Some(v) ELSE cell

\* A timestamp of the file: wall-clock day and hour with its UTC offset in hours.
ValidStamp(s) == s.hour \in 0..23 /\ s.day >= 0

\* pd.to_datetime(col, errors='coerce', utc=True): the instant in UTC hours,
\* NaT for a missing or unparseable value
to_datetime_utc(cell) ==
    IF cell = NA \/ ~ValidStamp(Get(cell)) THEN NA
    ELSE LET s == Get(cell) IN Some(s.day * 24 + s.hour - s.off)

\* .dt.hour and .dt.date of a UTC timestamp
dt_hour(cell) == IF cell = NA THEN NA ELSE Some(Get(cell) % 24)
dt_date(cell) == IF cell = NA THEN NA ELSE Some(Get(cell) \div 24)

\* int(x) of a response time in half minutes: truncation to whole minutes
IntOf(x) == x \div 2
\* a whole number of minutes as a response time
Minutes(m) == 2 * m

-----------------------------------------------------------------------------
(* dashboard.py: load_data and main. *)

\* load_data's candidate locations, in their listed order
possible_paths ==
    << "NERIS_COMPLETE_INCIDENTS.csv",
       "/Users/test/emergency-incidents-analysis/NERIS_COMPLETE_INCIDENTS.csv",
       "./NERIS_COMPLETE_INCIDENTS.csv",
       "../NERIS_COMPLETE_INCIDENTS.csv" >>

\* the choices of the 'Rows to display' selectbox
rows_to_show_options == {10, 25, 50, 100}

\* the columns of the table tab that the model carries
default_show_columns == <<"alarm_datetime", "city", "response_time_minutes">>

\* the conversions and derived columns of load_data, on one row
DashLoadRow(r) ==
    LET t == to_datetime_utc(r.alarm_datetime) IN
    [ alarm_datetime        |-> t,
      incident_type         |-> r.incident_type,
      city                  |-> r.city,
      response_time_minutes |-> r.response_time_minutes,
      latitude              |-> r.latitude,
      longitude             |-> r.longitude,
      incident_main_type    |-> incident_main_type_of(r.incident_type),
      alarm_hour            |-> dt_hour(t),
      date                  |-> dt_date(t) ]

\* Series.unique(), as a set (the missing value included)
Unique(series) == Range(series)

\* df['alarm_datetime'].dt.date
AlarmDates(d) == [k \in DOMAIN d |-> dt_date(d[k].alarm_datetime)]

\* the values st.date_input can return for a range picker between lo and hi:
\* no date, the start date alone, or a start and an end date
DateRanges(lo, hi) ==
    {<<>>} \cup {<<a>> : a \in lo..hi}
           \cup {<<a, b>> : a \in lo..hi, b \in lo..hi}

\* FilterDates with the end of the range exclusive
FilterDates_EndExclusive(d, date_range) ==
    IF Len(date_range) = 2
    THEN SelectSeq(d, LAMBDA r : PdGe(dt_date(r.alarm_datetime), date_range[1])
                                 /\ notna(r.alarm_datetime)
                                 /\ Get(dt_date(r.alarm_datetime)) < date_range[2])
    ELSE d

\* filtered_df[(date >= date_range[0]) & (date <= date_range[1])]
FilterDates(d, date_range) ==
    IF Len(date_range) = 2
    THEN SelectSeq(d, LAMBDA r : PdGe(dt_date(r.alarm_datetime), date_range[1])
                                 /\ PdLe(dt_date(r.alarm_datetime), date_range[2]))
    ELSE d

\* filtered_df[filtered_df[col] == selected] unless 'All' is selected
FilterEq(d, col, selected) ==
    IF selected # Some(Str_All)
    THEN SelectSeq(d, LAMBDA r : PdEq(r[col], selected))
    ELSE d

\* filtered_df[filtered_df['response_time_minutes'] <= max_response_time]
FilterResponse(d, max_response_time) ==
    SelectSeq(d, LAMBDA r : PdLe(r.response_time_minutes, Minutes(max_response_time)))

\* the 'Apply filters' block of main()
apply_filters(d, w) ==
    FilterResponse(
        FilterEq(
            FilterEq(FilterDates(d, w.date_range),
                     "incident_main_type", w.selected_incident_type),
            "city", w.selected_city),
        w.max_response_time)

\* Series.mean(): NaN for no valid value; only its being NaN matters here
MeanIsNaN(series) == dropna(series) = <<>>

\* df.head(n)
head(d, n) == SubSeq(d, 1, IF Len(d) < n THEN Len(d) ELSE n)

\* filtered_df[show_columns]
Project(d, cols) == [k \in DOMAIN d |-> [c \in Range(cols) |-> d[k][c]]]

MainStart ==
    /\ pc = "main"
    /\ rendered' = rendered \cup {"header"}
    /\ i' = 1
    /\ pc' = "load_loop"
    /\ UNCHANGED <<printed, files, csv, reads, df, widgets, filtered_df, download,
                   call, result, written>>

\* LoadDataTry without the break: the loop goes on after a successful read
LoadDataTry_NoBreak ==
    /\ pc = "load_loop"
    /\ IF i > Len(possible_paths)
       THEN /\ pc' = "load_check"
            /\ UNCHANGED <<i, reads, df, rendered>>
       ELSE IF files[i] = "absent"
       THEN /\ i' = i + 1
            /\ UNCHANGED <<pc, reads, df, rendered>>
       ELSE IF files[i] = "unreadable"
       THEN /\ reads' = Append(reads, i)
            /\ i' = i + 1
            /\ UNCHANGED <<pc, df, rendered>>
       ELSE /\ reads' = Append(reads, i)
            /\ df' = Some(csv)
            /\ rendered' = rendered \cup {"success:" \o possible_paths[i]}
            /\ i' = i + 1
            /\ UNCHANGED pc
    /\ UNCHANGED <<printed, files, csv, widgets, filtered_df, download, call,
                   result, written>>

\* one iteration of `for file_path in possible_paths`
LoadDataTry ==
    /\ pc = "load_loop"
    /\ IF i > Len(possible_paths)
       THEN /\ pc' = "load_check"
            /\ UNCHANGED <<i, reads, df, rendered>>
       ELSE IF files[i] = "absent"
       THEN \* os.path.exists is False: next location
            /\ i' = i + 1
            /\ UNCHANGED <<pc, reads, df, rendered>>
       ELSE IF files[i] = "unreadable"
       THEN \* pd.read_csv raises: except Exception: continue
            /\ reads' = Append(reads, i)
            /\ i' = i + 1
            /\ UNCHANGED <<pc, df, rendered>>
       ELSE \* read, report success, break
            /\ reads' = Append(reads, i)
            /\ df' = Some(csv)
            /\ rendered' = rendered \cup {"success:" \o possible_paths[i]}
            /\ pc' = "load_check"
            /\ UNCHANGED i
    /\ UNCHANGED <<printed, files, csv, widgets, filtered_df, download, call,
                   result, written>>

\* LoadDataFinish without st.stop(): the conversions run on None and raise
LoadDataFinish_NoStop ==
    /\ pc = "load_check"
    /\ IF df = NA
       THEN /\ rendered' = rendered \cup {"error:Data File Not Found"}
            /\ pc' = "crashed"
            /\ UNCHANGED df
       ELSE IF StrAccessorRaises(Column(Get(df), "incident_type"))
       THEN /\ pc' = "crashed"
            /\ UNCHANGED <<df, rendered>>
       ELSE /\ df' = Some([k \in DOMAIN Get(df) |-> DashLoadRow(Get(df)[k])])
            /\ pc' = "sidebar"
            /\ UNCHANGED rendered
    /\ UNCHANGED <<printed, files, csv, i, reads, widgets, filtered_df, download,
                   call, result, written>>

\* `if df is None: st.error(...); st.stop()`, else the conversions
LoadDataFinish ==
    /\ pc = "load_check"
    /\ IF df = NA
       THEN /\ rendered' = rendered \cup {"error:Data File Not Found"}
            /\ pc' = "stopped"
            /\ UNCHANGED df
       ELSE IF StrAccessorRaises(Column(Get(df), "incident_type"))
       THEN /\ pc' = "crashed"
            /\ UNCHANGED <<df, rendered>>
       ELSE /\ df' = Some([k \in DOMAIN Get(df) |-> DashLoadRow(Get(df)[k])])
            /\ pc' = "sidebar"
            /\ UNCHANGED rendered
    /\ UNCHANGED <<printed, files, csv, i, reads, widgets, filtered_df, download,
                   call, result, written>>

\* the sidebar: date range, incident type, city, max response time
Sidebar ==
    /\ pc = "sidebar"
    /\ LET d == Get(df)
           min_date == SeriesMin(AlarmDates(d))
           max_date == SeriesMax(AlarmDates(d))
           max_rt == SeriesMax(Column(d, "response_time_minutes"))
       IN  IF min_date = NA
           THEN \* st.date_input is handed NaN for its dates and raises
                /\ pc' = "crashed"
                /\ rendered' = rendered \cup {"filters_header"}
                /\ UNCHANGED widgets
           ELSE IF max_rt = NA
           THEN \* int(nan): ValueError
                /\ pc' = "crashed"
                /\ rendered' = rendered \cup {"filters_header", "date_input",
                                              "type_select", "city_select"}
                /\ UNCHANGED widgets
           ELSE /\ \E date_range \in DateRanges(Get(min_date), Get(max_date)),
                      selected_incident_type \in
                          {Some(Str_All)} \cup Unique(Column(d, "incident_main_type")),
                      selected_city \in
                          {Some(Str_All)} \cup Unique(Column(d, "city")),
                      max_response_time \in 0..IntOf(Get(max_rt)) :
                      widgets' = [ date_range |-> date_range,
                                   selected_incident_type |-> selected_incident_type,
                                   selected_city |-> selected_city,
                                   max_response_time |-> max_response_time ]
                /\ rendered' = rendered \cup {"filters_header", "date_input",
                                   "type_select", "city_select", "max_rt_slider"}
                /\ pc' = "filter"
    /\ UNCHANGED <<printed, files, csv, i, reads, df, filtered_df, download, call,
                   result, written>>

ApplyFilters ==
    /\ pc = "filter"
    /\ filtered_df' = apply_filters(Get(df), widgets)
    /\ pc' = "metrics"
    /\ UNCHANGED <<printed, files, csv, i, reads, df, widgets, rendered, download,
                   call, result, written>>

\* create_metrics_cards: a NaN average is formatted as 'nan'
Metrics ==
    /\ pc = "metrics"
    /\ rendered' = rendered \cup {"metrics"}
    /\ pc' = "tab1"
    /\ UNCHANGED <<printed, files, csv, i, reads, df, widgets, filtered_df, download,
                   call, result, written>>

\* the overview tab: timeline, hourly pattern, incident types, response times
TabOverview ==
    /\ pc = "tab1"
    /\ rendered' = rendered \cup {"chart:timeline", "chart:hourly",
                                  "chart:incident_type", "chart:response_dist"}
    /\ pc' = "tab2"
    /\ UNCHANGED <<printed, files, csv, i, reads, df, widgets, filtered_df, download,
                   call, result, written>>

\* `if len(df) > 1000` and `df.sample(n=1000)`
sample_threshold == 1000
sample_size == 1000

\* the subsets of S with k elements
RECURSIVE KSubsets(_, _)
KSubsets(S, k) ==
    IF k = 0 THEN {{}}
    ELSE UNION {{X \cup {x} : X \in KSubsets({y \in S : y > x}, k - 1)} : x \in S}

\* the values df_sample can take, each as the set of the row positions of df it
\* holds: df.sample(n) draws n different rows at random, and a dataframe of at
\* most sample_threshold rows is taken whole
Samples(d) ==
    IF Len(d) > sample_threshold
    THEN {(1..Len(d)) \ X : X \in KSubsets(1..Len(d), Len(d) - sample_size)}
    ELSE {1..Len(d)}

Str_MEDICAL == <<"M", "E", "D", "I", "C", "A", "L">>
Str_FIRE == <<"F", "I", "R", "E">>
Str_PUBSERV == <<"P", "U", "B", "S", "E", "R", "V">>
Str_OTHER == <<"O", "T", "H", "E", "R">>

\* the incident_colors dict of create_geographic_map
incident_colors ==
    [key \in {Str_MEDICAL, Str_FIRE, Str_PUBSERV, Str_OTHER} |->
        CASE key = Str_MEDICAL -> "red"
          [] key = Str_FIRE    -> "orange"
          [] key = Str_PUBSERV -> "blue"
          [] key = Str_OTHER   -> "green"]

\* dict.get(key, default) for a cell as the key: NaN is no key of the dict
DictGet(dict, cell, default) ==
    IF notna(cell) /\ Get(cell) \in DOMAIN dict THEN dict[Get(cell)] ELSE default

\* the rows of df_sample for which the loop adds a marker, as positions of df
Plotted(d, df_sample) ==
    SelectSeq([k \in DOMAIN d |-> k],
              LAMBDA k : /\ k \in df_sample
                         /\ notna(d[k].latitude)
                         /\ notna(d[k].longitude))

\* create_geographic_map raises when the map centre is NaN (folium rejects
\* it) and when a plotted row has no alarm time (NaT.strftime)
MapRaises(d, df_sample) ==
    \/ MeanIsNaN(Column(d, "latitude"))
    \/ MeanIsNaN(Column(d, "longitude"))
    \/ \E k \in Range(Plotted(d, df_sample)) : d[k].alarm_datetime = NA

\* the CircleMarkers added to the map, each with the position in df of the row
\* it stands for; the order in which they are drawn is left out
Markers(d, df_sample) ==
    LET rows == Plotted(d, df_sample)
    IN  [j \in DOMAIN rows |->
            [ record   |-> rows[j],
              location |-> <<Get(d[rows[j]].latitude), Get(d[rows[j]].longitude)>>,
              color    |-> DictGet(incident_colors,
                                   d[rows[j]].incident_main_type, "gray") ]]

\* the geographic tab: map, legend, cities overview, city comparison
TabGeographic ==
    /\ pc = "tab2"
    /\ \E df_sample \in Samples(filtered_df) :
          IF MapRaises(filtered_df, df_sample)
          THEN /\ pc' = "crashed"
               /\ UNCHANGED <<rendered, result>>
          ELSE /\ result' = Some(Markers(filtered_df, df_sample))
               /\ rendered' = rendered \cup {"map", "legend", "chart:city_comparison"}
               /\ pc' = "tab3"
    /\ UNCHANGED <<printed, files, csv, i, reads, df, widgets, filtered_df, download,
                   call, written>>

\* create_geographic_map called on a dataframe
CreateGeographicMap ==
    /\ pc = "map_call"
    /\ \E df_sample \in Samples(filtered_df) :
          IF MapRaises(filtered_df, df_sample)
          THEN /\ pc' = "crashed"
               /\ UNCHANGED result
          ELSE /\ result' = Some(Markers(filtered_df, df_sample))
               /\ pc' = "returned"
    /\ UNCHANGED <<printed, files, csv, i, reads, df, widgets, filtered_df, rendered,
                   download, call, written>>

\* the response tab: response time by type and by day, statistics
TabResponse ==
    /\ pc = "tab3"
    /\ rendered' = rendered \cup {"chart:response_by_type", "chart:response_by_day",
                                  "response_stats"}
    /\ pc' = "tab4"
    /\ UNCHANGED <<printed, files, csv, i, reads, df, widgets, filtered_df, download,
                   call, result, written>>

\* the data table tab: the table and the download button
TabTable ==
    /\ pc = "tab4"
    /\ \E show_columns \in {<<>>, default_show_columns},
          rows_to_show \in rows_to_show_options :
          IF show_columns # <<>>
          THEN LET display_df == head(Project(filtered_df, show_columns), rows_to_show)
               IN  /\ rendered' = rendered \cup {"table", "download_button"}
                   /\ download' = Some(display_df)
          ELSE /\ UNCHANGED rendered
               /\ download' = NA
    /\ pc' = "footer"
    /\ UNCHANGED <<printed, files, csv, i, reads, df, widgets, filtered_df, call, result,
                   written>>

Footer ==
    /\ pc = "footer"
    /\ rendered' = rendered \cup {"footer"}
    /\ pc' = "done"
    /\ UNCHANGED <<printed, files, csv, i, reads, df, widgets, filtered_df, download,
                   call, result, written>>

DashNext ==
    \/ MainStart
    \/ LoadDataTry
    \/ LoadDataFinish
    \/ Sidebar
    \/ ApplyFilters
    \/ Metrics
    \/ TabOverview
    \/ TabGeographic
    \/ TabResponse
    \/ TabTable
    \/ Footer

-----------------------------------------------------------------------------
(* The inputs of the dashboard. *)

Str_Medical == <<"M", "E", "D", "I", "C", "A", "L", "|", "|", "I", "L", "L">>
Str_Fire == <<"F", "I", "R", "E">>
Str_CityA == <<"A">>
Str_CityB == <<"B">>

\* 10:00 and 22:00 on day 1 at UTC-4: 14:00 on day 1 and 02:00 on day 2 in UTC
Stamp(day, hour, off) == [day |-> day, hour |-> hour, off |-> off]
StampMorning == Stamp(1, 10, 0 - 4)
StampEvening == Stamp(1, 22, 0 - 4)

\* the datasets of at most n rows over a set of rows
Datasets(rowDomain, n) == UNION {[1..k -> rowDomain] : k \in 0..n}

\* the datasets made of copies of one row, longer than the smallest table page
BulkDatasets(rowDomain) ==
    {[k \in 1..(SetMin(rows_to_show_options) + BulkExtra) |-> r] : r \in rowDomain}

DashRows ==
    [ alarm_datetime        : {NA, Some(StampMorning), Some(StampEvening)},
      incident_type         : {NA, Some(Str_Medical)},
      city                  : {Some(Str_CityA), Some(Str_CityB)},
      response_time_minutes : {NA, Some(2)},
      latitude              : {Some(39)},
      longitude             : {Some(0 - 76)} ]

\* the rows of the bulk datasets
DashBulkRows ==
    [ alarm_datetime        : {NA, Some(StampMorning), Some(StampEvening)},
      incident_type         : {NA, Some(Str_Medical), Some(Str_Fire)},
      city                  : {NA, Some(Str_CityA), Some(Str_CityB)},
      response_time_minutes : {NA, Some(2), Some(3)},
      latitude              : {Some(39)},
      longitude             : {Some(0 - 76)} ]

\* every row complete
DashFullRows ==
    [ alarm_datetime        : {Some(StampMorning)},
      incident_type         : {Some(Str_Medical), Some(Str_Fire)},
      city                  : {Some(Str_CityA)},
      response_time_minutes : {Some(2)},
      latitude              : {Some(39)},
      longitude             : {Some(0 - 76)} ]

FileStatus == {"absent", "unreadable", "ok"}

\* the first and the third candidate name the same file
FileSystems ==
    {f \in [DOMAIN possible_paths -> FileStatus] :
        (f[1] = "absent") <=> (f[3] = "absent")}

InitCommon ==
    /\ i = 0
    /\ reads = <<>>
    /\ df = NA
    /\ widgets = NA
    /\ filtered_df = <<>>
    /\ rendered = {}
    /\ download = NA
    /\ result = NA
    /\ written = <<>>
    /\ printed = <<>>

\* the dashboard on arbitrary small datasets and on bulk datasets, the file
\* being in the working directory
DashInit ==
    /\ InitCommon
    /\ call = "main"
    /\ pc = "main"
    /\ files = <<"ok", "absent", "ok", "absent">>
    /\ csv \in Datasets(DashRows, MaxRows) \cup BulkDatasets(DashBulkRows)

SpecDashboard == DashInit /\ [][DashNext]_vars

\* the dashboard on every arrangement of the candidate files
DashLoadInit ==
    /\ InitCommon
    /\ call = "main"
    /\ pc = "main"
    /\ files \in FileSystems
    /\ csv \in Datasets(DashFullRows, 1)

SpecDashLoad == DashLoadInit /\ [][DashNext]_vars

-----------------------------------------------------------------------------
(* Claims about the dashboard. *)

\* the positions of main() after the 'Apply filters' block
AfterFilters == {"metrics", "tab1", "tab2", "tab3", "tab4", "footer", "done"}

\* a row satisfies every active filter
SatisfiesFilters(r, w) ==
    /\ Len(w.date_range) = 2 =>
          /\ notna(r.alarm_datetime)
          /\ w.date_range[1] <= Get(r.alarm_datetime) \div 24
          /\ Get(r.alarm_datetime) \div 24 <= w.date_range[2]
    /\ w.selected_incident_type # Some(Str_All) =>
          /\ notna(r.incident_main_type)
          /\ r.incident_main_type = w.selected_incident_type
    /\ w.selected_city # Some(Str_All) =>
          /\ notna(r.city)
          /\ r.city = w.selected_city
    /\ notna(r.response_time_minutes)
    /\ Get(r.response_time_minutes) <= 2 * w.max_response_time

\* C1: after main() has applied the sidebar filters, the filtered dataset is made
\* of exactly the rows of the loaded dataset that satisfy every active filter
\* (alarm date within the selected range, both ends inclusive, when two dates are
\* selected; main incident type and city equal to the selection unless 'All' is
\* selected; response time at most the selected maximum), in their order. A row
\* whose value is missing satisfies no active filter on that value.
C1_FilteredExactly ==
    pc \in AfterFilters =>
        filtered_df = SelectSeq(Get(df), LAMBDA r : SatisfiesFilters(r, widgets))

\* every filter is active, and the filters keep some rows and drop others
C1_Witness ==
    /\ pc = "metrics"
    /\ Len(widgets.date_range) = 2
    /\ widgets.selected_incident_type # Some(Str_All)
    /\ widgets.selected_city # Some(Str_All)
    /\ filtered_df # <<>>
    /\ Len(filtered_df) < Len(Get(df))

\* C5: for a loaded dataset (with rows and a valid alarm date) in which every
\* response_time_minutes value is missing, main() does not crash
C5_NoCrashOnMissingResponseTime ==
    ( /\ df # NA
      /\ Get(df) # <<>>
      /\ AllMissing(Column(Get(df), "response_time_minutes"))
      /\ \E k \in DOMAIN Get(df) : notna(Get(df)[k].alarm_datetime) )
    => pc # "crashed"

\* the first candidate location that exists and can be read, 0 when there is none
FirstOk ==
    IF \E k \in DOMAIN files : files[k] = "ok"
    THEN SetMin({k \in DOMAIN files : files[k] = "ok"})
    ELSE 0

\* the existing locations among the first n, in their listed order
RECURSIVE ExistingUpTo(_)
ExistingUpTo(n) ==
    IF n = 0 THEN <<>>
    ELSE IF files[n] = "absent" THEN ExistingUpTo(n - 1)
         ELSE Append(ExistingUpTo(n - 1), n)

SuccessMessages == {"success:" \o possible_paths[k] : k \in DOMAIN possible_paths}

\* C6: load_data tries the candidate locations in their listed order and loads
\* the dataset from the first one that exists and can be read; a location that
\* does not exist or whose read raises is skipped; once one location has been
\* loaded no later location is read
C6_FirstReadableLoaded ==
    /\ pc = "load_loop" =>
          /\ df = NA
          /\ reads = ExistingUpTo(i - 1)
          /\ \A k \in 1..(i - 1) : files[k] # "ok"
    /\ pc \notin {"main", "load_loop"} =>
          IF FirstOk = 0
          THEN /\ df = NA
               /\ reads = ExistingUpTo(Len(possible_paths))
               /\ rendered \cap SuccessMessages = {}
          ELSE /\ df # NA
               /\ reads = ExistingUpTo(FirstOk)
               /\ rendered \cap SuccessMessages
                      = {"success:" \o possible_paths[FirstOk]}

\* a later location could have been read: the first readable one is followed by
\* another readable one and preceded by one whose read raised
C6_Witness ==
    /\ pc = "load_check"
    /\ FirstOk = 2
    /\ files[1] = "unreadable"
    /\ files[4] = "ok"
    /\ reads = <<1, 2>>

\* what main() renders after load_data returns
AfterLoadElements ==
    {"filters_header", "date_input", "type_select", "city_select", "max_rt_slider",
     "metrics", "chart:timeline", "chart:hourly", "chart:incident_type",
     "chart:response_dist", "map", "legend", "chart:city_comparison",
     "chart:response_by_type", "chart:response_by_day", "response_stats",
     "table", "download_button", "footer"}

\* C7: when no candidate location yields a dataset, load_data shows the 'Data
\* File Not Found' error and the script stops: no conversion runs and main()
\* renders no filter, metric or chart
C7_StopWhenNoData ==
    (FirstOk = 0 /\ pc \notin {"main", "load_loop", "load_check"}) =>
        /\ pc = "stopped"
        /\ "error:Data File Not Found" \in rendered
        /\ rendered \cap AfterLoadElements = {}
        /\ df = NA
        /\ widgets = NA
        /\ filtered_df = <<>>
        /\ download = NA

\* the script has stopped after every existing location failed to read
C7_Witness ==
    /\ pc = "stopped"
    /\ files[1] = "unreadable"
    /\ files[4] = "absent"
    /\ "error:Data File Not Found" \in rendered

\* C8: the CSV offered by the 'Download filtered data as CSV' button holds one
\* row for every record of the filtered dataset
C8_DownloadHasAllFilteredRows ==
    download # NA => Len(Get(download)) = Len(filtered_df)

-----------------------------------------------------------------------------
(* data_analyzer.py: EmergencyIncidentsAnalyzer. *)

\* Python values of a returned dict: None, or a value
PyNone == [py |-> "None"]
PyVal(v) == [py |-> "value", v |-> v]

RECURSIVE Sum(_)
Sum(vals) ==
    IF vals = <<>> THEN 0
    ELSE IF Len(vals) = 1 THEN vals[1]
    ELSE LET half == Len(vals) \div 2
         IN  Sum(SubSeq(vals, 1, half)) + Sum(SubSeq(vals, half + 1, Len(vals)))

\* Series.mean(): the sum over the count of the valid values; 0/0 is NaN
Mean(vals) == [sum |-> Sum(vals), n |-> Len(vals)]

\* Series.value_counts(): the count of each value that is present
value_counts(series) ==
    [v \in Range(dropna(series)) |->
        Cardinality({k \in DOMAIN series : series[k] = Some(v)})]

\* value_counts().index[0]: a most frequent value (the order among values of
\* equal count is not specified by the sort)
TopValues(series) ==
    LET vc == value_counts(series)
    IN  {v \in DOMAIN vc : \A u \in DOMAIN vc : vc[u] <= vc[v]}

\* value_counts().head(n) with the least frequent values first
RECURSIVE TopLists_Ascending(_, _)
TopLists_Ascending(vc, n) ==
    IF n = 0 \/ DOMAIN vc = {} THEN {<<>>}
    ELSE UNION {
           {<<[value |-> v, count |-> vc[v]]>> \o rest :
               rest \in TopLists_Ascending([u \in DOMAIN vc \ {v} |-> vc[u]], n - 1)} :
           v \in {w \in DOMAIN vc : \A u \in DOMAIN vc : vc[w] <= vc[u]}}

\* value_counts().head(n).items(): the n most frequent values with their
\* counts, the most frequent first; the order among values of equal count is
\* not specified by the sort, so these are all the lists it can give
RECURSIVE TopLists(_, _)
TopLists(vc, n) ==
    IF n = 0 \/ DOMAIN vc = {} THEN {<<>>}
    ELSE UNION {
           {<<[value |-> v, count |-> vc[v]]>> \o rest :
               rest \in TopLists([u \in DOMAIN vc \ {v} |-> vc[u]], n - 1)} :
           v \in {w \in DOMAIN vc : \A u \in DOMAIN vc : vc[u] <= vc[w]}}

\* value_counts().index[0] raises IndexError when no value is present
IndexZeroRaises(series) == DOMAIN value_counts(series) = {}

\* NaT.strftime raises ValueError
StrftimeRaises(cell) == cell = NA

\* a / b on Python numbers raises ZeroDivisionError when b is 0
PyDivRaises(b) == b = 0

\* the conversions and derived columns of EmergencyIncidentsAnalyzer.load_data
AnalyzerLoadRows(rows) ==
    LET t(r) == to_datetime_utc(r.alarm_datetime)
        any_valid == \E k \in DOMAIN rows : notna(t(rows[k]))
    IN  [k \in DOMAIN rows |->
            [ alarm_datetime        |-> t(rows[k]),
              incident_type         |-> rows[k].incident_type,
              city                  |-> rows[k].city,
              place_type            |-> rows[k].place_type,
              response_time_minutes |-> rows[k].response_time_minutes,
              total_casualties      |-> rows[k].total_casualties,
              transport_disposition |-> rows[k].transport_disposition,
              incident_main_type    |->
                  fillna(incident_main_type_of(rows[k].incident_type), Str_Unknown),
              alarm_hour            |->
                  IF any_valid THEN dt_hour(t(rows[k])) ELSE NA ] ]

\* EmergencyIncidentsAnalyzer(csv_file_path): read_csv and load_data
AnalyzerLoad ==
    /\ pc = "init"
    /\ IF StrAccessorRaises(Column(csv, "incident_type"))
       THEN /\ pc' = "crashed"
            /\ UNCHANGED df
       ELSE /\ df' = Some(AnalyzerLoadRows(csv))
            /\ pc' = "loaded"
    /\ call' = "load_data"
    /\ UNCHANGED <<printed, files, csv, i, reads, widgets, filtered_df, rendered, download,
                   result, written>>

\* 'avg_response_time' without its guard: the mean of no value
avg_response_time_NoGuard(valid_response_times) ==
    PyVal(Mean(valid_response_times))

\* 'avg_response_time': valid_response_times.mean() if there is one, else None
avg_response_time_of(valid_response_times) ==
    IF Len(valid_response_times) > 0
    THEN PyVal(Mean(valid_response_times))
    ELSE PyNone

\* 'total_casualties': valid_casualties.sum() if there is one, else 0
total_casualties_of(valid_casualties) ==
    IF Len(valid_casualties) > 0 THEN Sum(valid_casualties) ELSE 0

\* 'date_range': (min, max) of alarm_datetime if one is valid, else (None, None)
date_range_of(d) ==
    IF Len(dropna(Column(d, "alarm_datetime"))) > 0
    THEN << PyVal(SeriesMin(Column(d, "alarm_datetime"))),
            PyVal(SeriesMax(Column(d, "alarm_datetime"))) >>
    ELSE << PyNone, PyNone >>

\* the statements of get_summary_statistics that can raise
summary_raises(d) ==
    LET valid_datetime == dropna(Column(d, "alarm_datetime"))
        incident_counts == value_counts(Column(d, "incident_main_type"))
        city_counts == value_counts(Column(d, "city"))
        transport_counts == value_counts(Column(d, "transport_disposition"))
        with_transport == SelectSeq(d, LAMBDA r : notna(r.transport_disposition))
    IN  \/ /\ Len(valid_datetime) > 0
           /\ \/ StrftimeRaises(SeriesMin(Column(d, "alarm_datetime")))
              \/ StrftimeRaises(SeriesMax(Column(d, "alarm_datetime")))
        \/ \E v \in DOMAIN incident_counts : PyDivRaises(Len(d))
        \/ \E v \in DOMAIN city_counts : PyDivRaises(Len(d))
        \/ \E v \in DOMAIN transport_counts : PyDivRaises(Len(with_transport))

\* the dict get_summary_statistics returns
summary_of(d) ==
    [ total_incidents   |-> Len(d),
      date_range        |-> date_range_of(d),
      avg_response_time |->
          avg_response_time_of(dropna(Column(d, "response_time_minutes"))),
      incident_types    |-> value_counts(Column(d, "incident_main_type")),
      city_counts       |-> value_counts(Column(d, "city")),
      total_casualties  |->
          total_casualties_of(dropna(Column(d, "total_casualties"))) ]

GetSummaryStatistics ==
    /\ pc = "loaded"
    /\ call' = "get_summary_statistics"
    /\ IF summary_raises(Get(df))
       THEN /\ pc' = "crashed"
            /\ UNCHANGED <<result, rendered, printed>>
       ELSE /\ result' = Some(summary_of(Get(df)))
            /\ rendered' = rendered \cup {"EMERGENCY INCIDENTS DATA SUMMARY"}
            /\ \E top \in TopLists(value_counts(Column(Get(df), "city")), 10) :
                  printed' = Append(printed,
                                    [title |-> "Top 10 Cities by Incident Count",
                                     items |-> top])
            /\ pc' = "returned"
    /\ UNCHANGED <<files, csv, i, reads, df, widgets, filtered_df, download, written>>

\* groupby('alarm_hour').size().idxmax(): the hour with the most rows, the
\* earliest hour among equals
peak_hour_of(d) ==
    LET hours == value_counts(Column(d, "alarm_hour"))
        top == {h \in DOMAIN hours : \A g \in DOMAIN hours : hours[g] <= hours[h]}
    IN  SetMin(top)

\* the statements of create_detailed_report that can raise
report_raises(d) ==
    \/ /\ Len(dropna(Column(d, "alarm_datetime"))) > 0
       /\ \/ StrftimeRaises(SeriesMin(Column(d, "alarm_datetime")))
          \/ StrftimeRaises(SeriesMax(Column(d, "alarm_datetime")))
    \/ IndexZeroRaises(Column(d, "incident_main_type"))
    \/ IndexZeroRaises(Column(d, "city"))
    \/ IndexZeroRaises(Column(d, "place_type"))

\* the report create_detailed_report writes
report_of(d, most_common_type, most_active_city, most_common_place) ==
    [ total_incidents   |-> Len(d),
      avg_response_time |-> Mean(dropna(Column(d, "response_time_minutes"))),
      most_common_type  |-> most_common_type,
      peak_hour         |->
          IF \E k \in DOMAIN d : notna(d[k].alarm_hour)
          THEN Some(peak_hour_of(d))
          ELSE NA,
      most_active_city  |-> most_active_city,
      most_common_place |-> most_common_place,
      total_casualties  |-> Sum(dropna(Column(d, "total_casualties"))),
      timestamps_note   |-> "All timestamps are in Eastern Time (UTC-4)" ]

\* open(name, 'w').write(content)
WriteFile(w, name, content) ==
    [n \in DOMAIN w \cup {name} |-> IF n = name THEN content ELSE w[n]]

CreateDetailedReport ==
    /\ pc = "loaded"
    /\ call' = "create_detailed_report"
    /\ IF report_raises(Get(df))
       THEN /\ pc' = "crashed"
            /\ UNCHANGED <<written, rendered>>
       ELSE /\ \E type \in TopValues(Column(Get(df), "incident_main_type")),
                  city \in TopValues(Column(Get(df), "city")),
                  place \in TopValues(Column(Get(df), "place_type")) :
                  written' = WriteFile(written, "analysis_report.md",
                                       report_of(Get(df), type, city, place))
            /\ rendered' = rendered \cup
                   {"Detailed analysis report saved as 'analysis_report.md'"}
            /\ pc' = "returned"
    /\ UNCHANGED <<printed, files, csv, i, reads, df, widgets, filtered_df, download, result>>

AnalyzerNext ==
    \/ AnalyzerLoad
    \/ GetSummaryStatistics
    \/ CreateDetailedReport

Str_Place == <<"H", "O", "M", "E">>
Str_Transport == <<"T", "R", "A", "N", "S", "P", "O", "R", "T">>

\* the rows on which the summary statistics are checked
StatsRows ==
    [ alarm_datetime        : {NA, Some(StampMorning)},
      incident_type         : {NA, Some(Str_Medical), Some(Str_Fire)},
      city                  : {Some(Str_CityA)},
      place_type            : {Some(Str_Place)},
      response_time_minutes : {NA, Some(2), Some(3)},
      total_casualties      : {NA, Some(0), Some(1)},
      transport_disposition : {NA, Some(Str_Transport)} ]

\* the rows on which the detailed report is checked
ReportRows ==
    [ alarm_datetime        : {NA, Some(StampMorning), Some(StampEvening)},
      incident_type         : {Some(Str_Medical)},
      city                  : {NA, Some(Str_CityA)},
      place_type            : {NA, Some(Str_Place)},
      response_time_minutes : {NA, Some(2)},
      total_casualties      : {Some(1)},
      transport_disposition : {NA, Some(Str_Transport)} ]

AnalyzerInitCommon ==
    /\ InitCommon
    /\ files = <<>>
    /\ call = "__init__"
    /\ pc = "init"

StatsInit ==
    /\ AnalyzerInitCommon
    /\ csv \in Datasets(StatsRows, MaxRows)

ReportInit ==
    /\ AnalyzerInitCommon
    /\ csv \in Datasets(ReportRows, MaxRows)

SpecAnalyzerStats == StatsInit /\ [][AnalyzerNext]_vars
SpecAnalyzerReport == ReportInit /\ [][AnalyzerNext]_vars

-----------------------------------------------------------------------------
(* Claims about the analyzer. *)

\* C2: get_summary_statistics does not crash on missing data: on every loaded
\* dataset it returns a summary, whose avg_response_time is None when no
\* response time is valid, whose total_casualties is 0 when no casualty value
\* is valid and whose date_range is (None, None) when no alarm time is valid
C2_SummaryOnMissingData ==
    call = "get_summary_statistics" =>
        /\ pc = "returned"
        /\ result # NA
        /\ LET d == Get(df)
               summary == Get(result)
           IN  /\ summary.total_incidents = Len(csv)
               /\ AllMissing(Column(d, "response_time_minutes"))
                      => summary.avg_response_time = PyNone
               /\ AllMissing(Column(d, "total_casualties"))
                      => summary.total_casualties = 0
               /\ AllMissing(Column(d, "alarm_datetime"))
                      => summary.date_range = <<PyNone, PyNone>>

\* the summary of a dataset of two rows in which every response time, casualty
\* count, transport disposition and alarm time is missing
C2_Witness ==
    /\ call = "get_summary_statistics"
    /\ pc = "returned"
    /\ Len(Get(df)) = 2
    /\ AllMissing(Column(Get(df), "response_time_minutes"))
    /\ AllMissing(Column(Get(df), "total_casualties"))
    /\ AllMissing(Column(Get(df), "transport_disposition"))
    /\ AllMissing(Column(Get(df), "alarm_datetime"))

\* C4: create_detailed_report does not crash on missing data: on every loaded
\* dataset (with rows) it completes and writes analysis_report.md
C4_ReportOnMissingData ==
    (call = "create_detailed_report" /\ Get(df) # <<>>) =>
        /\ pc = "returned"
        /\ "analysis_report.md" \in DOMAIN written

\* the part of a string that precedes its first '||' (the whole string when it
\* has none)
RECURSIVE PartBeforeSeparator(_)
PartBeforeSeparator(s) ==
    IF Len(s) < 2 THEN s
    ELSE IF s[1] = "|" /\ s[2] = "|" THEN <<>>
         ELSE <<s[1]>> \o PartBeforeSeparator(Tail(s))

\* C9: for every record whose incident_type is present, the derived
\* incident_main_type is the part of incident_type before the first '||'
C9_MainTypeIsFirstPart ==
    pc \in {"loaded", "returned"} =>
        \A k \in DOMAIN csv :
            notna(csv[k].incident_type) =>
                Get(df)[k].incident_main_type
                    = Some(PartBeforeSeparator(Get(csv[k].incident_type)))

\* the hour of an alarm time in Eastern Time (UTC-4)
EasternHours(d) ==
    [k \in DOMAIN d |->
        IF d[k].alarm_datetime = NA THEN NA
        ELSE Some((Get(d[k].alarm_datetime) - 4) % 24)]

\* the Eastern hour with the most alarms, the earliest among equals
EasternPeakHour(d) ==
    LET hours == value_counts(EasternHours(d))
        top == {h \in DOMAIN hours : \A g \in DOMAIN hours : hours[g] <= hours[h]}
    IN  SetMin(top)

\* C10: the 'Peak Hour' of the report, which states that all timestamps are in
\* Eastern Time (UTC-4), is the peak hour of the alarm times in Eastern Time
C10_PeakHourIsEastern ==
    ( /\ "analysis_report.md" \in DOMAIN written
      /\ ~AllMissing(Column(Get(df), "alarm_datetime")) )
    => written["analysis_report.md"].peak_hour = Some(EasternPeakHour(Get(df)))

-----------------------------------------------------------------------------
(* data_analyzer.py: run_complete_analysis. *)

\* the 'Generated files' list of the banner
generated_files ==
    << "incident_analysis.png", "geographic_analysis.png",
       "response_time_analysis.png", "interactive_dashboard.html",
       "analysis_report.md" >>

RunStart ==
    /\ pc = "loaded"
    /\ call' = "run_complete_analysis"
    /\ rendered' = rendered \cup {"Starting complete emergency incidents analysis..."}
    /\ pc' = "run_summary"
    /\ UNCHANGED <<printed, files, csv, i, reads, df, widgets, filtered_df, download,
                   result, written>>

\* summary = self.get_summary_statistics()
RunSummary ==
    /\ pc = "run_summary"
    /\ IF summary_raises(Get(df))
       THEN /\ pc' = "crashed"
            /\ UNCHANGED <<result, rendered, printed>>
       ELSE /\ result' = Some(summary_of(Get(df)))
            /\ rendered' = rendered \cup {"EMERGENCY INCIDENTS DATA SUMMARY",
                                          "Generating visualizations..."}
            /\ \E top \in TopLists(value_counts(Column(Get(df), "city")), 10) :
                  printed' = Append(printed,
                                    [title |-> "Top 10 Cities by Incident Count",
                                     items |-> top])
            /\ pc' = "run_incident_type"
    /\ UNCHANGED <<files, csv, i, reads, df, widgets, filtered_df, download,
                   call, written>>

\* Each of the three chart steps draws a figure and saves it as its last
\* statement; whether the plotting library raises on the data before that is
\* left open.

\* self.create_incident_type_analysis()
CreateIncidentTypeAnalysis ==
    /\ pc = "run_incident_type"
    /\ \E raises \in BOOLEAN :
          IF raises
          THEN /\ pc' = "crashed"
               /\ UNCHANGED written
          ELSE /\ written' = WriteFile(written, "incident_analysis.png", "figure")
               /\ pc' = "run_geographic"
    /\ UNCHANGED <<printed, files, csv, i, reads, df, widgets, filtered_df, rendered,
                   download, call, result>>

\* self.create_geographic_analysis()
CreateGeographicAnalysis ==
    /\ pc = "run_geographic"
    /\ \E raises \in BOOLEAN :
          IF raises
          THEN /\ pc' = "crashed"
               /\ UNCHANGED written
          ELSE /\ written' = WriteFile(written, "geographic_analysis.png", "figure")
               /\ pc' = "run_response_time"
    /\ UNCHANGED <<printed, files, csv, i, reads, df, widgets, filtered_df, rendered,
                   download, call, result>>

\* self.create_response_time_analysis()
CreateResponseTimeAnalysis ==
    /\ pc = "run_response_time"
    /\ \E raises \in BOOLEAN :
          IF raises
          THEN /\ pc' = "crashed"
               /\ UNCHANGED written
          ELSE /\ written' = WriteFile(written, "response_time_analysis.png", "figure")
               /\ pc' = "run_dashboard"
    /\ UNCHANGED <<printed, files, csv, i, reads, df, widgets, filtered_df, rendered,
                   download, call, result>>

\* create_interactive_dashboard in a try/except: a raise is passed over and
\* the analysis goes on
CreateInteractiveDashboard_Caught ==
    /\ pc = "run_dashboard"
    /\ \E raises \in BOOLEAN :
          IF raises
          THEN /\ rendered' = rendered \cup {"Creating interactive dashboard..."}
               /\ UNCHANGED written
          ELSE /\ written' = WriteFile(written, "interactive_dashboard.html", "figure")
               /\ rendered' = rendered \cup
                      {"Creating interactive dashboard...",
                       "Interactive dashboard saved as 'interactive_dashboard.html'"}
    /\ pc' = "run_report"
    /\ UNCHANGED <<printed, files, csv, i, reads, df, widgets, filtered_df, download,
                   call, result>>

\* print("Creating interactive dashboard..."); self.create_interactive_dashboard()
CreateInteractiveDashboard ==
    /\ pc = "run_dashboard"
    /\ \E raises \in BOOLEAN :
          IF raises
          THEN /\ rendered' = rendered \cup {"Creating interactive dashboard..."}
               /\ pc' = "crashed"
               /\ UNCHANGED written
          ELSE /\ written' = WriteFile(written, "interactive_dashboard.html", "figure")
               /\ rendered' = rendered \cup
                      {"Creating interactive dashboard...",
                       "Interactive dashboard saved as 'interactive_dashboard.html'"}
               /\ pc' = "run_report"
    /\ UNCHANGED <<printed, files, csv, i, reads, df, widgets, filtered_df, download,
                   call, result>>

\* print("Generating detailed report..."); self.create_detailed_report()
RunDetailedReport ==
    /\ pc = "run_report"
    /\ IF report_raises(Get(df))
       THEN /\ pc' = "crashed"
            /\ rendered' = rendered \cup {"Generating detailed report..."}
            /\ UNCHANGED written
       ELSE /\ \E type \in TopValues(Column(Get(df), "incident_main_type")),
                  city \in TopValues(Column(Get(df), "city")),
                  place \in TopValues(Column(Get(df), "place_type")) :
                  written' = WriteFile(written, "analysis_report.md",
                                       report_of(Get(df), type, city, place))
            /\ rendered' = rendered \cup
                   {"Generating detailed report...",
                    "Detailed analysis report saved as 'analysis_report.md'"}
            /\ pc' = "run_banner"
    /\ UNCHANGED <<printed, files, csv, i, reads, df, widgets, filtered_df, download,
                   call, result>>

\* the 'ANALYSIS COMPLETE!' banner and the list of generated files
RunBanner ==
    /\ pc = "run_banner"
    /\ rendered' = rendered \cup {"ANALYSIS COMPLETE!", "Generated files:"}
                            \cup {"- " \o generated_files[k] : k \in DOMAIN generated_files}
    /\ pc' = "returned"
    /\ UNCHANGED <<printed, files, csv, i, reads, df, widgets, filtered_df, download,
                   call, result, written>>

RunNext ==
    \/ AnalyzerLoad
    \/ RunStart
    \/ RunSummary
    \/ CreateIncidentTypeAnalysis
    \/ CreateGeographicAnalysis
    \/ CreateResponseTimeAnalysis
    \/ CreateInteractiveDashboard
    \/ RunDetailedReport
    \/ RunBanner

\* the rows on which the complete analysis is checked
RunRows ==
    [ alarm_datetime        : {NA, Some(StampMorning)},
      incident_type         : {Some(Str_Medical)},
      city                  : {NA, Some(Str_CityA)},
      place_type            : {Some(Str_Place)},
      response_time_minutes : {NA, Some(2)},
      total_casualties      : {Some(1)},
      transport_disposition : {NA, Some(Str_Transport)} ]

RunInit ==
    /\ AnalyzerInitCommon
    /\ csv \in Datasets(RunRows, MaxRows)

SpecAnalyzerRun == RunInit /\ [][RunNext]_vars

\* the number of files a position of run_complete_analysis has behind it
\* (crashed: any number, the steps up to the one that raised)
FilesBehind(position) ==
    CASE position \in {"run_summary", "run_incident_type"} -> {0}
      [] position = "run_geographic"    -> {1}
      [] position = "run_response_time" -> {2}
      [] position = "run_dashboard"     -> {3}
      [] position = "run_report"        -> {4}
      [] position \in {"run_banner", "returned"} -> {5}
      [] OTHER -> 0..4

\* C16: run_complete_analysis runs its steps in the fixed order (summary
\* statistics, incident type chart, geographic chart, response time chart,
\* interactive dashboard, detailed report): at every point the files written
\* are those of the steps before it, in that order, after the summary; the
\* 'ANALYSIS COMPLETE!' banner with the five files is printed only once all five
\* are written; when a step raises no later step has run and no banner is printed
C16_StepsInOrder ==
    call = "run_complete_analysis" =>
        /\ \E n \in FilesBehind(pc) :
               DOMAIN written = {generated_files[k] : k \in 1..n}
        /\ (written # <<>> \/ pc \notin {"run_summary", "crashed"})
               => "EMERGENCY INCIDENTS DATA SUMMARY" \in rendered
        /\ "ANALYSIS COMPLETE!" \in rendered =>
               /\ pc = "returned"
               /\ DOMAIN written = Range(generated_files)
               /\ \A k \in DOMAIN generated_files :
                      ("- " \o generated_files[k]) \in rendered
        /\ pc = "returned" => "ANALYSIS COMPLETE!" \in rendered
        /\ pc = "crashed" => "ANALYSIS COMPLETE!" \notin rendered

\* the analysis has run to its end: the banner is printed after the five files
C16_Witness ==
    /\ call = "run_complete_analysis"
    /\ pc = "returned"
    /\ "ANALYSIS COMPLETE!" \in rendered
    /\ DOMAIN written = Range(generated_files)
    /\ Len(Get(df)) = 2

-----------------------------------------------------------------------------
(* create_geographic_map on a loaded dataframe, and the claims about the map. *)

MapRows ==
    [ alarm_datetime        : {NA, Some(StampMorning)},
      incident_type         : {Some(Str_Medical), Some(Str_Fire)},
      city                  : {Some(Str_CityA)},
      response_time_minutes : {Some(2)},
      latitude              : {NA, Some(39)},
      longitude             : {NA, Some(0 - 76)} ]

\* the rows of the datasets around the sampling threshold: with and without
\* a latitude
MapBulkRows ==
    [ alarm_datetime        : {Some(StampMorning)},
      incident_type         : {Some(Str_Medical)},
      city                  : {Some(Str_CityA)},
      response_time_minutes : {Some(2)},
      latitude              : {NA, Some(39)},
      longitude             : {Some(0 - 76)} ]

\* datasets of sample_threshold and of sample_threshold + 1 rows: a first row
\* followed by copies of another
MapBulkDatasets ==
    {[k \in 1..n |-> IF k = 1 THEN first ELSE other] :
        n \in {sample_threshold, sample_threshold + 1},
        first \in MapBulkRows, other \in MapBulkRows}

\* create_geographic_map(df) on a dataframe as load_data returns it
MapInit ==
    /\ call = "create_geographic_map"
    /\ pc = "map_call"
    /\ files = <<>>
    /\ csv = <<>>
    /\ i = 0
    /\ reads = <<>>
    /\ widgets = NA
    /\ rendered = {}
    /\ download = NA
    /\ result = NA
    /\ written = <<>>
    /\ printed = <<>>
    /\ \E raw \in Datasets(MapRows, MaxRows) \cup MapBulkDatasets :
          /\ df = Some([k \in DOMAIN raw |-> DashLoadRow(raw[k])])
          /\ filtered_df = [k \in DOMAIN raw |-> DashLoadRow(raw[k])]

SpecMap == MapInit /\ [][CreateGeographicMap]_vars

\* the 'Map Legend' of main(): the colour of each kind of incident
map_legend ==
    [kind \in {Str_MEDICAL, Str_FIRE, Str_PUBSERV, Str_OTHER} |->
        CASE kind = Str_MEDICAL -> "red"
          [] kind = Str_FIRE    -> "orange"
          [] kind = Str_PUBSERV -> "blue"
          [] kind = Str_OTHER   -> "green"]

\* C11: every marker of the map of main() has the colour the legend gives to
\* the kind of its incident (medical red, fire orange, public service blue,
\* other green), the kind being the main category of the record's incident_type
C11_MarkersFollowLegend ==
    (call = "main" /\ result # NA) =>
        \A j \in DOMAIN Get(result) :
            LET r == filtered_df[Get(result)[j].record]
            IN  notna(r.incident_type) =>
                    LET kind == PartBeforeSeparator(Get(r.incident_type))
                    IN  kind \in DOMAIN map_legend =>
                            Get(result)[j].color = map_legend[kind]

\* the markers create_geographic_map has placed (none when it raised)
MarkersPlaced == IF result = NA THEN <<>> ELSE Get(result)

\* C12: the markers create_geographic_map places stand for different records
\* of the dataset; for a dataset of more than 1000 records there are at most
\* 1000 markers; for a dataset of at most 1000 records every record with both
\* coordinates has a marker and no record that lacks a coordinate has one
C12_MapSampling ==
    (call = "create_geographic_map" /\ pc # "map_call") =>
        LET m == MarkersPlaced
            records == {m[j].record : j \in DOMAIN m}
        IN  /\ records \subseteq DOMAIN filtered_df
            /\ Cardinality(records) = Len(m)
            /\ Len(filtered_df) > 1000 => Len(m) <= 1000
            /\ Len(filtered_df) <= 1000 =>
                   \A k \in DOMAIN filtered_df :
                       k \in records <=>
                           /\ notna(filtered_df[k].latitude)
                           /\ notna(filtered_df[k].longitude)

-----------------------------------------------------------------------------
(* database_summary.py: generate_database_summary. *)

Nunique(series) == Cardinality(Range(dropna(series)))

\* the conversion of generate_database_summary: alarm_datetime to UTC
SummaryLoadRows(rows) ==
    [k \in DOMAIN rows |->
        [rows[k] EXCEPT !.alarm_datetime = to_datetime_utc(rows[k].alarm_datetime)]]

\* the columns of the file that generate_database_summary reads, in the order
\* the model gives them in the file
ColumnOrder ==
    << "alarm_datetime", "city", "zip_code", "place_type", "incident_type",
       "incident_category", "total_casualties", "incident_description",
       "response_time_minutes", "units_responded", "transport_disposition",
       "patient_care_evaluation" >>

\* df.columns: the columns a dataset carries (a file of no rows: all of them)
ColumnsOf(d) ==
    IF d = <<>> THEN ColumnOrder
    ELSE SelectSeq(ColumnOrder, LAMBDA c : c \in DOMAIN d[1])

\* the integer nearest to num / den, a tie going to the even one (round())
RoundHalfEven(num, den) ==
    LET q == num \div den
        r == num % den
    IN  IF 2 * r < den THEN q
        ELSE IF 2 * r > den THEN q + 1
        ELSE IF q % 2 = 0 THEN q ELSE q + 1

\* df[col].isnull().sum()
NullCount(d, col) == Cardinality({k \in DOMAIN d : d[k][col] = NA})

\* round((df[col].isnull().sum() / len(df)) * 100, 1), in tenths of a percent;
\* NaN for a dataframe of no rows (a numpy division by zero)
missing_pct_of(d, col) ==
    IF Len(d) = 0 THEN NA
    ELSE Some(RoundHalfEven(1000 * NullCount(d, col), Len(d)))

\* 100 - missing_pct, in tenths of a percent
completeness_of(d, col) ==
    IF missing_pct_of(d, col) = NA THEN NA
    ELSE Some(1000 - Get(missing_pct_of(d, col)))

\* the 'Data quality analysis' loop: summary["data_quality"]
data_quality(d) ==
    LET cols == Range(ColumnsOf(d))
    IN  [ columns               |-> ColumnsOf(d),
          completeness          |-> [c \in cols |-> completeness_of(d, c)],
          missing_data_analysis |->
              [c \in {x \in cols : /\ notna(missing_pct_of(d, x))
                                   /\ Get(missing_pct_of(d, x)) > 0}
                  |-> Get(missing_pct_of(d, c))] ]

\* the summary dict, before the data quality analysis; top_cities is the
\* ordered dict value_counts().head(5).to_dict() gave, as its items
summary_dict(d, top_cities) ==
    [ total_records             |-> Len(d),
      date_range_start          |->
          IF \E k \in DOMAIN d : notna(d[k].alarm_datetime)
          THEN SeriesMin(Column(d, "alarm_datetime")) ELSE NA,
      unique_cities             |-> Nunique(Column(d, "city")),
      top_cities                |-> top_cities,
      total_casualties          |-> Sum(dropna(Column(d, "total_casualties"))),
      incidents_with_casualties |->
          Len(SelectSeq(dropna(Column(d, "total_casualties")), LAMBDA c : c > 0)),
      average_response_time     |-> Mean(dropna(Column(d, "response_time_minutes"))),
      transport_disposition     |-> value_counts(Column(d, "transport_disposition")) ]

\* sum(dict.values())
RECURSIVE SumOver(_, _)
SumOver(dict, keys) ==
    IF keys = {} THEN 0
    ELSE LET k == CHOOSE x \in keys : TRUE
         IN  dict[k] + SumOver(dict, keys \ {k})
SumValues(dict) == SumOver(dict, DOMAIN dict)

\* list(dict.keys())[0] raises IndexError on an empty dict
FirstKeyRaises(dict) == DOMAIN dict = {}

\* the statements of the report's formatting that can raise
db_report_raises(summary) ==
    \/ \E item \in DOMAIN summary.top_cities : PyDivRaises(summary.total_records)
    \/ \E disposition \in DOMAIN summary.transport_disposition :
           PyDivRaises(SumValues(summary.transport_disposition))
    \/ PyDivRaises(summary.total_records)
    \/ FirstKeyRaises(summary.top_cities)
    \/ FirstKeyRaises(summary.transport_disposition)

\* len([k for k, v in completeness.items() if v >= 95]); completeness is in
\* tenths of a percent, and a NaN completeness satisfies no comparison
high_quality_count(completeness) ==
    Cardinality({c \in DOMAIN completeness :
                    notna(completeness[c]) /\ Get(completeness[c]) >= 950})

\* len([k for k, v in completeness.items() if 80 <= v < 95])
good_quality_count(completeness) ==
    Cardinality({c \in DOMAIN completeness :
                    /\ notna(completeness[c])
                    /\ 800 <= Get(completeness[c])
                    /\ Get(completeness[c]) < 950})

\* len([k for k, v in completeness.items() if v < 80])
poor_quality_count(completeness) ==
    Cardinality({c \in DOMAIN completeness :
                    notna(completeness[c]) /\ Get(completeness[c]) < 800})

\* dict.items() of missing_data_analysis, in insertion order (the column order)
MissingItems(quality) ==
    LET cols == SelectSeq(quality.columns,
                          LAMBDA c : c \in DOMAIN quality.missing_data_analysis)
    IN  [j \in DOMAIN cols |->
            [field |-> cols[j], missing_pct |-> quality.missing_data_analysis[cols[j]]]]

\* sorted(items, key=lambda x: x[1]): ascending, equal keys in their order
sorted_by_pct_ascending(items) ==
    LET pos(p) == 1 + Cardinality({q \in DOMAIN items :
                         \/ items[q].missing_pct < items[p].missing_pct
                         \/ items[q].missing_pct = items[p].missing_pct /\ q < p})
    IN  [j \in DOMAIN items |-> items[CHOOSE p \in DOMAIN items : pos(p) = j]]

\* sorted(items, key=lambda x: x[1], reverse=True): descending, equal keys in
\* their order
sorted_by_pct(items) ==
    LET pos(p) == 1 + Cardinality({q \in DOMAIN items :
                         \/ items[q].missing_pct > items[p].missing_pct
                         \/ items[q].missing_pct = items[p].missing_pct /\ q < p})
    IN  [j \in DOMAIN items |-> items[CHOOSE p \in DOMAIN items : pos(p) = j]]

\* the report: the lines of 'Top 5 Cities by Incident Count', and of the 'Data
\* Quality Assessment' section the three counts and the lines of 'Fields with
\* Missing Data' (sorted_missing[:10])
report_text(summary, quality) ==
    [ top_cities     |-> summary.top_cities,
      high_quality   |-> high_quality_count(quality.completeness),
      good_quality   |-> good_quality_count(quality.completeness),
      poor_quality   |-> poor_quality_count(quality.completeness),
      missing_fields |-> head(sorted_by_pct(MissingItems(quality)), 10) ]

\* read the file, convert, build the summary dict
DbSummaryBuild ==
    /\ pc = "summary_start"
    /\ df' = Some(SummaryLoadRows(csv))
    /\ \E top_cities \in TopLists(value_counts(Column(csv, "city")), 5) :
          result' = Some([summary |-> summary_dict(SummaryLoadRows(csv), top_cities),
                          quality |-> data_quality(SummaryLoadRows(csv))])
    /\ pc' = "summary_report"
    /\ UNCHANGED <<printed, files, csv, i, reads, widgets, filtered_df, rendered, download,
                   call, written>>

\* format the report
DbSummaryReport ==
    /\ pc = "summary_report"
    /\ IF db_report_raises(Get(result).summary)
       THEN /\ pc' = "crashed"
            /\ result' = NA
       ELSE /\ pc' = "summary_save"
            /\ result' = Some([summary |-> Get(result).summary,
                               quality |-> Get(result).quality,
                               report  |-> report_text(Get(result).summary,
                                                      Get(result).quality)])
    /\ UNCHANGED <<printed, files, csv, i, reads, df, widgets, filtered_df, rendered,
                   download, call, written>>

\* save the JSON and the Markdown versions, return (summary, report)
DbSummarySave ==
    /\ pc = "summary_save"
    /\ written' = WriteFile(
           WriteFile(written, "database_summary.json",
                     [summary |-> Get(result).summary, quality |-> Get(result).quality]),
           "database_summary.md", Get(result).report)
    /\ rendered' = rendered \cup {"Database summary generated!"}
    /\ pc' = "returned"
    /\ UNCHANGED <<printed, files, csv, i, reads, df, widgets, filtered_df, download, call,
                   result>>

SummaryNext ==
    \/ DbSummaryBuild
    \/ DbSummaryReport
    \/ DbSummarySave

SummaryRows ==
    [ alarm_datetime        : {NA, Some(StampMorning)},
      city                  : {NA, Some(Str_CityA), Some(Str_CityB)},
      response_time_minutes : {NA, Some(2)},
      total_casualties      : {NA, Some(0), Some(1)},
      transport_disposition : {NA, Some(Str_Transport)} ]

SummaryInit ==
    /\ InitCommon
    /\ files = <<>>
    /\ call = "generate_database_summary"
    /\ pc = "summary_start"
    /\ csv \in Datasets(SummaryRows, MaxRows)

SpecSummary == SummaryInit /\ [][SummaryNext]_vars

\* C3: generate_database_summary does not crash on missing data: on every
\* dataset (with rows) it runs to the end, writes database_summary.json and
\* database_summary.md and returns (summary, report)
C3_DbSummaryOnMissingData ==
    (call = "generate_database_summary" /\ csv # <<>>) =>
        /\ pc # "crashed"
        /\ pc = "returned" =>
              /\ {"database_summary.json", "database_summary.md"} \subseteq DOMAIN written
              /\ result # NA

-----------------------------------------------------------------------------
(* The data quality analysis of generate_database_summary. *)

\* the rows of the datasets of the data quality analysis
QualityRows == 20
\* the rows of a dataset large enough for a missing percentage below 0.05
LargeRows == 2001

\* the numbers of missing values a column can have
MissingCounts == {0, 1, 4, 5}

\* the value of a cell that is present
CellValue(col) ==
    CASE col = "alarm_datetime"        -> Some(StampMorning)
      [] col = "city"                  -> Some(Str_CityA)
      [] col = "transport_disposition" -> Some(Str_Transport)
      [] col = "incident_type"         -> Some(Str_Medical)
      [] OTHER                         -> Some(1)

\* the dataset of n rows in which column number c lacks the values of its first
\* missing[c] rows
QualityDataset(n, missing) ==
    [k \in 1..n |->
        [col \in Range(ColumnOrder) |->
            LET c == CHOOSE x \in DOMAIN ColumnOrder : ColumnOrder[x] = col
            IN  IF k <= missing[c] THEN NA ELSE CellValue(col)]]

\* the first three columns lack any of the numbers of values; of the others, a
\* leading or a trailing group lacks the largest number and the rest lacks one
QualityMissing ==
    {[c \in DOMAIN ColumnOrder |->
        IF c <= 3 THEN first[c]
        ELSE IF (c - 3 <= group) = leading THEN SetMax(MissingCounts) ELSE 1] :
        first \in [1..3 -> MissingCounts],
        group \in 0..(Len(ColumnOrder) - 3),
        leading \in BOOLEAN}

\* in the large dataset at most one value is missing in each of the first two
\* columns
LargeMissing ==
    {[c \in DOMAIN ColumnOrder |-> IF c <= 2 THEN first[c] ELSE 0] :
        first \in [1..2 -> {0, 1}]}

QualityInit ==
    /\ InitCommon
    /\ files = <<>>
    /\ call = "generate_database_summary"
    /\ pc = "summary_start"
    /\ csv \in {QualityDataset(QualityRows, m) : m \in QualityMissing}
               \cup {QualityDataset(LargeRows, m) : m \in LargeMissing}

SpecQuality == QualityInit /\ [][SummaryNext]_vars

\* the completeness of a column in tenths of a percent, from the dataset
CompletenessTenths(col) ==
    1000 - RoundHalfEven(1000 * NullCount(csv, col), Len(csv))

\* C13: in the report the data quality counts follow their labels: 'High
\* Quality Fields' counts the columns that are more than 95% complete, 'Good
\* Quality Fields' those between 80% and 95% complete and 'Poor Quality Fields'
\* those less than 80% complete
C13_QualityCountsFollowLabels ==
    (call = "generate_database_summary" /\ pc \in {"summary_save", "returned"}) =>
        LET cols == Range(ColumnsOf(csv))
            report == Get(result).report
        IN  /\ report.high_quality
                  = Cardinality({c \in cols : CompletenessTenths(c) > 950})
            /\ report.good_quality
                  = Cardinality({c \in cols : /\ 800 <= CompletenessTenths(c)
                                              /\ CompletenessTenths(c) <= 950})
            /\ report.poor_quality
                  = Cardinality({c \in cols : CompletenessTenths(c) < 800})

\* C14: every column with at least one missing value is recorded in
\* missing_data_analysis with its missing percentage (to one decimal), no
\* column without missing values is recorded there, and for every column
\* completeness plus missing percentage is 100
C14_MissingDataAnalysis ==
    (call = "generate_database_summary" /\ pc # "summary_start" /\ result # NA) =>
        LET quality == Get(result).quality
            analysis == quality.missing_data_analysis
        IN  \A col \in Range(ColumnsOf(csv)) :
                /\ NullCount(csv, col) > 0 <=> col \in DOMAIN analysis
                /\ col \in DOMAIN analysis =>
                       analysis[col] = RoundHalfEven(1000 * NullCount(csv, col), Len(csv))
                /\ Get(quality.completeness[col])
                       + RoundHalfEven(1000 * NullCount(csv, col), Len(csv)) = 1000

\* C15: the 'Fields with Missing Data' section lists at most 10 fields, each a
\* field of missing_data_analysis with its percentage and none twice, in
\* non-increasing order of missing percentage, and no field left out has a
\* strictly larger missing percentage than a listed one
C15_TopMissingFields ==
    (call = "generate_database_summary" /\ pc \in {"summary_save", "returned"}) =>
        LET analysis == Get(result).quality.missing_data_analysis
            listed == Get(result).report.missing_fields
            fields == {listed[j].field : j \in DOMAIN listed}
        IN  /\ Len(listed) <= 10
            /\ Cardinality(fields) = Len(listed)
            /\ \A j \in DOMAIN listed :
                   /\ listed[j].field \in DOMAIN analysis
                   /\ listed[j].missing_pct = analysis[listed[j].field]
            /\ \A j \in 1..(Len(listed) - 1) :
                   listed[j].missing_pct >= listed[j + 1].missing_pct
            /\ \A out \in DOMAIN analysis \ fields :
                   \A j \in DOMAIN listed : analysis[out] <= listed[j].missing_pct

\* more than 10 fields have missing data, with different percentages, and the
\* fields of the file do not come in the order of their percentages
C15_Witness ==
    /\ call = "generate_database_summary"
    /\ pc = "returned"
    /\ Cardinality(DOMAIN Get(result).quality.missing_data_analysis) > 10
    /\ Len(Get(result).report.missing_fields) = 10
    /\ Get(result).report.missing_fields[1].missing_pct
           > Get(result).report.missing_fields[10].missing_pct
    /\ MissingItems(Get(result).quality)[1].missing_pct
           < Get(result).report.missing_fields[1].missing_pct

-----------------------------------------------------------------------------
(* quick_preview.py: quick_data_preview, and the 'Top N' lists of the three *)
(* programs.                                                                *)

\* the main types quick_data_preview counts: those present and not ''
PreviewMainTypes(d) ==
    SelectSeq([k \in DOMAIN d |-> incident_main_type_of(d[k].incident_type)],
              LAMBDA c : notna(c) /\ c # Some(<<>>))

\* the number of missing values of each column that has some: the order of
\* missing_percentages[missing_percentages > 0] is the order of these numbers
MissingColumns(d) ==
    LET cols == IF d = <<>> THEN {} ELSE DOMAIN d[1]
    IN  [c \in {x \in cols : NullCount(d, x) > 0} |-> NullCount(d, c)]

\* quick_data_preview(): the dataset info, the top 5 incident types (of the
\* incident descriptions when no main type is left), the top 5 cities, the
\* response time and casualty figures and the top 5 columns with missing data
QuickDataPreview ==
    /\ pc = "preview_start"
    /\ IF StrAccessorRaises(Column(csv, "incident_type"))
       THEN /\ pc' = "crashed"
            /\ rendered' = rendered \cup {"EMERGENCY INCIDENTS DATA PREVIEW"}
            /\ UNCHANGED <<df, result, printed>>
       ELSE /\ \E types \in
                      IF Len(PreviewMainTypes(csv)) > 0
                      THEN TopLists(value_counts(PreviewMainTypes(csv)), 5)
                      ELSE TopLists(value_counts(Column(csv, "incident_description")), 5),
                  cities \in TopLists(value_counts(Column(csv, "city")), 5),
                  top_missing \in TopLists(MissingColumns(csv), 5) :
                  printed' = printed \o
                      << [title |-> "Top 5 Incident Types", items |-> types],
                         [title |-> "Top 5 Cities", items |-> cities],
                         [title |-> "Columns with Missing Data", items |-> top_missing] >>
            /\ rendered' = rendered \cup {"EMERGENCY INCIDENTS DATA PREVIEW",
                                          "Data Preview Complete!"}
            /\ df' = Some(csv)
            /\ result' = Some(csv)
            /\ pc' = "returned"
    /\ UNCHANGED <<files, csv, i, reads, widgets, filtered_df, download, call,
                   written>>

\* the most cities of a dataset
TopCities == 12

CityNames == <<"A", "B", "C", "D", "E", "F", "G", "H", "I", "J", "K", "L", "M", "N">>

Str_Description == <<"F", "A", "L", "L">>

\* a row of the city numbered c (0: the city is missing)
TopRow(c) ==
    [ alarm_datetime        |-> Some(StampMorning),
      incident_type         |-> Some(Str_Medical),
      incident_description  |-> Some(Str_Description),
      city                  |-> IF c = 0 THEN NA ELSE Some(<<CityNames[c]>>),
      place_type            |-> Some(Str_Place),
      response_time_minutes |-> Some(2),
      total_casualties      |-> Some(1),
      transport_disposition |-> Some(Str_Transport) ]

\* the rows of the cities 1..c, city k having count[k] of them, in turns (a
\* row of every city that still lacks one, then again), after `missing` rows
\* without a city
RECURSIVE TopDatasetRows(_, _, _)
TopDatasetRows(c, count, missing) ==
    IF missing > 0 THEN <<TopRow(0)>> \o TopDatasetRows(c, count, missing - 1)
    ELSE LET left == SelectSeq([k \in 1..c |-> k], LAMBDA k : count[k] > 0)
         IN  IF left = <<>> THEN <<>>
             ELSE [j \in DOMAIN left |-> TopRow(left[j])]
                  \o TopDatasetRows(c, [k \in 1..c |-> IF count[k] > 0
                                                       THEN count[k] - 1 ELSE 0], 0)

\* the numbers of records of the cities: all different, or equal in pairs
TopCounts(c, shape) ==
    [k \in 1..c |-> IF shape = "distinct" THEN k ELSE (k + 1) \div 2]

TopDatasets ==
    {TopDatasetRows(c, TopCounts(c, shape), missing) :
        c \in 0..TopCities, shape \in {"distinct", "pairs"}, missing \in {0, 3}}

\* each of the three programs on each dataset
TopInit ==
    /\ InitCommon
    /\ files = <<>>
    /\ csv \in TopDatasets
    /\ \/ call = "__init__" /\ pc = "init"
       \/ call = "generate_database_summary" /\ pc = "summary_start"
       \/ call = "quick_data_preview" /\ pc = "preview_start"

TopNext ==
    \/ AnalyzerLoad
    \/ GetSummaryStatistics
    \/ DbSummaryBuild
    \/ DbSummaryReport
    \/ DbSummarySave
    \/ QuickDataPreview

SpecTopN == TopInit /\ [][TopNext]_vars

\* the number of records of the file with a city
RecordsOfCity(city) ==
    Cardinality({k \in DOMAIN csv : csv[k].city = Some(city)})

\* a list is a 'Top n' list of the cities of the file
IsTopCities(items, n) ==
    /\ Len(items) <= n
    /\ Cardinality({items[j].value : j \in DOMAIN items}) = Len(items)
    /\ \A j \in DOMAIN items :
           /\ items[j].count = RecordsOfCity(items[j].value)
           /\ items[j].count > 0
    /\ \A j \in 1..(Len(items) - 1) : items[j].count >= items[j + 1].count
    /\ \A k \in DOMAIN csv :
           (notna(csv[k].city) /\ \A j \in DOMAIN items : items[j].value # Get(csv[k].city))
               => \A j \in DOMAIN items : RecordsOfCity(Get(csv[k].city)) <= items[j].count

\* the lists of a title that have been printed
PrintedLists(title) ==
    {printed[j].items : j \in {x \in DOMAIN printed : printed[x].title = title}}

\* C17: every 'Top N' list of cities (top 5 in the report of
\* generate_database_summary and in quick_data_preview, top 10 in
\* get_summary_statistics) has at most N entries, in non-increasing order of
\* count, each count being the number of records with that city, and leaves out
\* no city with a strictly larger count than a listed one
C17_TopLists ==
    /\ \A items \in PrintedLists("Top 10 Cities by Incident Count") :
           IsTopCities(items, 10)
    /\ \A items \in PrintedLists("Top 5 Cities") : IsTopCities(items, 5)
    /\ (call = "generate_database_summary" /\ pc \in {"summary_save", "returned"})
           => IsTopCities(Get(result).report.top_cities, 5)

\* get_summary_statistics has printed ten cities of a file that has more, two
\* of the listed cities having the same count and two having different counts
C17_Witness ==
    /\ call = "get_summary_statistics"
    /\ pc = "returned"
    /\ Cardinality({csv[k].city : k \in DOMAIN csv} \ {NA}) > 10
    /\ \E items \in PrintedLists("Top 10 Cities by Incident Count") :
           /\ Len(items) = 10
           /\ items[1].count > items[10].count
           /\ \E j \in 1..9 : items[j].count = items[j + 1].count

=============================================================================
